---- MODULE Spec2Model ----
(***************************************************************************)
(* Hybrid retrieval engine of the voice knowledge base                     *)
(* (src/pipeline/hybrid_search.py): the BM25Okapi lexical index, the lazy  *)
(* index build, the two per-query tasks started by HybridSearch.search and *)
(* reciprocal rank fusion.  Spec follows one search() call with its data;  *)
(* SpecConc follows several lexical tasks and index builds on one event    *)
(* loop, one source statement per step.                                    *)
(*                                                                         *)
(* The components around the engine have a specification each: SpecQuery   *)
(* the /query endpoint with the conversation memory (src/main.py,          *)
(* src/utils/conversation_memory.py), SpecVoice the speaking thread of the *)
(* voice chat (src/voice_chat_optimized.py), SpecChunk the chunker         *)
(* (src/indexing/chunking.py) and SpecRerank the reranker                  *)
(* (src/pipeline/reranker.py).  Each leaves the state of the others alone. *)
(*                                                                         *)
(* Strings are sequences of one-character strings.  Floating-point scores  *)
(* are exact scaled integers: a fused score is kept in units of            *)
(* 1/(10*RRFScale), a BM25 score in units of 1e-5, a similarity in units   *)
(* of 1/100.  Rounding of IEEE doubles is not modelled.                    *)
(***************************************************************************)
EXTENDS Integers, Sequences, FiniteSets, TLC

\* ------------------------------------------------------------------ bounds
MaxDocs == 2
MaxTopK == 2
HashMod == 7
NumTasks == 2
MaxTurns == 2
MaxRequests == 4
MaxSentences == 3
MaxChunkWords == 2
MaxTextWords == 3
MaxResults == 3

\* ------------------------------------------------------- program constants
K_RRF == 60
K1x2 == 3
Bx4 == 3

\* --------------------------------------------------------- input alphabets
Contents ==
  { <<"a">>, <<"A", " ", "b">>, <<"b", " ", "b">> }

Queries ==
  { <<>>, <<" ">>, <<"a">>, <<"B", " ", "a">> }

\* weights in tenths: the defaults (0.7, 0.3), (1, 0) and (0.5, 0.5)
WeightPairs == { <<7, 3>>, <<10, 0>>, <<5, 5>> }

TopKs == 0..MaxTopK

\* ------------------------------------------------------------ small helpers
Range(s) == { s[i] : i \in 1..Len(s) }

Max(a, b) == IF a >= b THEN a ELSE b

Min(a, b) == IF a <= b THEN a ELSE b

Reverse(s) == [i \in 1..Len(s) |-> s[Len(s) + 1 - i]]

RECURSIVE SumSeq(_)
SumSeq(s) == IF s = <<>> THEN 0 ELSE Head(s) + SumSeq(Tail(s))

RECURSIVE Gcd(_, _)
Gcd(a, b) == IF b = 0 THEN a ELSE Gcd(b, a % b)

Lcm(a, b) == (a \div Gcd(a, b)) * b

RECURSIVE LcmRange(_, _)
LcmRange(lo, hi) == IF lo > hi THEN 1 ELSE Lcm(lo, LcmRange(lo + 1, hi))

\* ------------------------------------------------------------------ strings
\* str.lower() on the alphabet of the model
LowerCh(ch) ==
  CASE ch = "A" -> "a"
    [] ch = "B" -> "b"
    [] ch = "C" -> "c"
    [] OTHER -> ch

Lower(s) == [i \in 1..Len(s) |-> LowerCh(s[i])]

IsSpace(ch) == ch = " "

\* str.split(): split on runs of whitespace, no empty tokens
RECURSIVE SplitFrom(_, _, _)
SplitFrom(s, i, cur) ==
  IF i > Len(s)
  THEN (IF cur = <<>> THEN <<>> ELSE <<cur>>)
  ELSE IF IsSpace(s[i])
       THEN (IF cur = <<>>
             THEN SplitFrom(s, i + 1, <<>>)
             ELSE <<cur>> \o SplitFrom(s, i + 1, <<>>))
       ELSE SplitFrom(s, i + 1, Append(cur, s[i]))

Split(s) == SplitFrom(s, 1, <<>>)

\* query.lower().split() and doc['content'].lower().split()
Tokenize(s) == Split(Lower(s))

\* hash(content): a fixed-width hash of the characters
CharCode(ch) ==
  CASE ch = "a" -> 1
    [] ch = "A" -> 2
    [] ch = "b" -> 3
    [] ch = "B" -> 4
    [] ch = "c" -> 5
    [] ch = "C" -> 6
    [] OTHER -> 0

RECURSIVE HashFrom(_, _, _)
HashFrom(s, i, h) ==
  IF i > Len(s) THEN h
  ELSE HashFrom(s, i + 1, (h * 3 + CharCode(s[i])) % HashMod)

hash(content) == HashFrom(content, 1, Len(content) % HashMod)

\* ---------------------------------------------------------------- BM25Okapi
\* Counter(doc): term -> number of occurrences in doc
Counter(doc) ==
  [t \in Range(doc) |-> Cardinality({ i \in 1..Len(doc) : doc[i] = t })]

\* dict.get(term, 0)
Get(d, key) == IF key \in DOMAIN d THEN d[key] ELSE 0

\* the "if self.corpus_size else 0.0" guard left out: the average of an
\* empty corpus is the undefined quotient 0 / 0
BM25Okapi_Unguarded(corpus) ==
  LET size == Len(corpus)
      total == SumSeq([i \in 1..size |-> Len(corpus[i])])
      terms == UNION { Range(corpus[i]) : i \in 1..size }
  IN [ corpus |-> corpus,
       corpus_size |-> size,
       avg_doc_len |-> <<total, size>>,
       doc_freqs |-> [i \in 1..size |-> Counter(corpus[i])],
       term_doc_freq |->
         [t \in terms |->
            Cardinality({ i \in 1..size : t \in Range(corpus[i]) })] ]

\* BM25Okapi.__init__: avg_doc_len is the pair <<total tokens, corpus size>>,
\* <<0, 1>> standing for 0.0 when the corpus is empty
BM25Okapi(corpus) ==
  LET size == Len(corpus)
      total == SumSeq([i \in 1..size |-> Len(corpus[i])])
      terms == UNION { Range(corpus[i]) : i \in 1..size }
  IN [ corpus |-> corpus,
       corpus_size |-> size,
       avg_doc_len |-> IF size # 0 THEN <<total, size>> ELSE <<0, 1>>,
       doc_freqs |-> [i \in 1..size |-> Counter(corpus[i])],
       term_doc_freq |->
         [t \in terms |->
            Cardinality({ i \in 1..size : t \in Range(corpus[i]) })] ]

\* the "1 +" left out of the logarithm: math.log((N - df + 0.5) / (df + 0.5)),
\* which is 0 or negative for a term held by half of the documents or more
Idf_WithoutOne(n, df) ==
  LET table == << <<-109861>>,
                  <<0, -160944>>,
                  <<51083, -51083, -194591>>,
                  <<84730, 0, -84730, -219722>>,
                  <<109861, 33647, -33647, -109861, -239790>>,
                  <<129928, 58779, 0, -58779, -129928, -256495>> >>
  IN table[n][df]

\* math.log(1 + (N - df + 0.5) / (df + 0.5)) in units of 1e-5, by table
IdfTable ==
  << <<28768>>,
     <<69315, 18232>>,
     <<98083, 47000, 13353>>,
     <<120397, 69315, 35667, 10536>>,
     <<138629, 87547, 53900, 28768, 8701>>,
     <<154045, 102962, 69315, 44183, 24116, 7411>> >>

Idf(n, df) == IdfTable[n][df]

\* idf * (term_freq * (k1 + 1)) / denom, in units of 1e-5, with k1 = K1x2/2,
\* b = Bx4/4 and doc_len / avg_doc_len = doc_len * size / total
TermScore(index, idx, term_freq, idf) ==
  LET doc_len == Len(index.corpus[idx])
      total == index.avg_doc_len[1]
      size == index.avg_doc_len[2]
  IN IF total # 0
     THEN (idf * 4 * term_freq * (K1x2 + 2) * total)
            \div (8 * term_freq * total
                  + K1x2 * ((4 - Bx4) * total + Bx4 * doc_len * size))
     ELSE (idf * term_freq * (K1x2 + 2)) \div (2 * term_freq + K1x2)

\* the term_freq == 0 skip dropped and the term frequency smoothed by one:
\* every document is scored for every term the corpus knows
AddTerm_Smoothed(index, scores, term) ==
  LET df == Get(index.term_doc_freq, term)
  IN IF df = 0 THEN scores
     ELSE [idx \in 1..index.corpus_size |->
             scores[idx]
             + TermScore(index, idx, Get(index.doc_freqs[idx], term) + 1,
                         Idf(index.corpus_size, df))]

\* the inner loop over documents for one query term
AddTerm(index, scores, term) ==
  LET df == Get(index.term_doc_freq, term)
  IN IF df = 0 THEN scores
     ELSE [idx \in 1..index.corpus_size |->
             LET term_freq == Get(index.doc_freqs[idx], term)
             IN IF term_freq = 0 THEN scores[idx]
                ELSE scores[idx]
                     + TermScore(index, idx, term_freq,
                                 Idf(index.corpus_size, df))]

RECURSIVE ScoreTerms(_, _, _)
ScoreTerms(index, scores, query_terms) ==
  IF query_terms = <<>> THEN scores
  ELSE ScoreTerms(index, AddTerm(index, scores, Head(query_terms)),
                  Tail(query_terms))

\* BM25Okapi.get_scores
get_scores(index, query_terms) ==
  IF index.corpus_size = 0 THEN <<>>
  ELSE ScoreTerms(index, [idx \in 1..index.corpus_size |-> 0], query_terms)

\* ------------------------------------------------------------ lexical path
\* np.argsort(scores): ascending; the order of equal scores is left to the
\* sort kind, fixed for one process: kind "low" puts the lower index first,
\* kind "high" the higher index first
ArgsortKinds == { "low", "high" }

Before(scores, kind, i, j) ==
  \/ scores[i] < scores[j]
  \/ /\ scores[i] = scores[j]
     /\ IF kind = "low" THEN i < j ELSE i > j

argsort(scores, kind) ==
  LET n == Len(scores)
      pos(i) == 1 + Cardinality({ j \in 1..n : Before(scores, kind, j, i) })
  IN [p \in 1..n |-> CHOOSE i \in 1..n : pos(i) = p]

\* a[-top_k:] for top_k >= 0: the whole array when top_k = 0
LastK(a, top_k) ==
  IF top_k = 0 \/ top_k >= Len(a) THEN a
  ELSE SubSeq(a, Len(a) - top_k + 1, Len(a))

\* the [::-1] left out: the best top_k indices in ascending order
TopIndices_NotReversed(scores, top_k, kind) ==
  LastK(argsort(scores, kind), top_k)

\* np.argsort(scores)[-top_k:][::-1]
TopIndices(scores, top_k, kind) == Reverse(LastK(argsort(scores, kind), top_k))

RECURSIVE Collect(_, _, _)
Collect(top_indices, scores, docs) ==
  IF top_indices = <<>> THEN <<>>
  ELSE LET idx == Head(top_indices)
           rest == Collect(Tail(top_indices), scores, docs)
       IN IF scores[idx] > 0
          THEN << [ content |-> docs[idx].content,
                    score |-> scores[idx],
                    metadata |-> docs[idx].metadata,
                    id |-> docs[idx].id ] >> \o rest
          ELSE rest

\* _bm25_search after the index check: tokenize, score, rank, filter
Bm25Results(index, docs, query, top_k, kind) ==
  LET scores == get_scores(index, Tokenize(query))
  IN Collect(TopIndices(scores, top_k, kind), scores, docs)

\* _build_bm25_index: the documents list and the index built from it
BuildDocuments(all_docs) ==
  [i \in 1..Len(all_docs) |->
     [ content |-> all_docs[i].content,
       metadata |-> all_docs[i].metadata,
       id |-> all_docs[i].id ]]

BuildIndex(docs) == BM25Okapi([i \in 1..Len(docs) |-> Tokenize(docs[i].content)])

\* ------------------------------------------------------------- vector path
\* embedder.encode + the store's cosine distance, in hundredths.  The
\* embedding model is outside the repository; what the engine relies on is
\* that the distance is a fixed function of the two texts, here one minus
\* the share of common lower-cased tokens (an empty query is equally far
\* from every stored text and still gets its nearest hits)
Distance(query, content) ==
  LET q == Range(Tokenize(query))
      c == Range(Tokenize(content))
      u == q \cup c
  IN IF u = {} THEN 0
     ELSE 100 - (100 * Cardinality(q \cap c)) \div Cardinality(u)

\* collection.query(n_results = top_k): nearest first, insertion order
\* among equal distances
Nearest(all_docs, query, n_results) ==
  LET n == Len(all_docs)
      d(i) == Distance(query, all_docs[i].content)
      pos(i) == 1 + Cardinality({ j \in 1..n :
                   d(j) < d(i) \/ (d(j) = d(i) /\ j < i) })
      order == [p \in 1..n |-> CHOOSE i \in 1..n : pos(i) = p]
  IN SubSeq(order, 1, Min(n_results, n))

\* _vector_search: (doc, 1 - dist, meta) for each hit
VectorResults(all_docs, query, top_k) ==
  LET hits == Nearest(all_docs, query, top_k)
  IN [r \in 1..Len(hits) |->
        [ content |-> all_docs[hits[r]].content,
          score |-> 100 - Distance(query, all_docs[hits[r]].content),
          metadata |-> all_docs[hits[r]].metadata,
          id |-> all_docs[hits[r]].id ]]

\* ------------------------------------------------------------------ fusion
\* largest number of entries a candidate list can have
MaxRank == Max(MaxDocs, MaxTopK)

\* common denominator of 1 / (k + rank + 1) over the ranks that occur
RRFScale == LcmRange(K_RRF + 1, K_RRF + MaxRank)

\* weight * (1 / (k + rank + 1)) for a 0-indexed rank, weight in tenths
rrf_score(weight, rank) == weight * (RRFScale \div (K_RRF + rank + 1))

\* position of key in the insertion-ordered dict, 0 when absent
KeyIndex(entries, key) ==
  IF \E i \in 1..Len(entries) : entries[i].key = key
  THEN CHOOSE i \in 1..Len(entries) : entries[i].key = key
  ELSE 0

\* the candidate's raw score stored in place of the reciprocal-rank sum
Accumulate_RawScore(entries, cand, rank, weight) ==
  LET content_key == hash(cand.content)
      at == KeyIndex(entries, content_key)
      e == [ key |-> content_key,
             score |-> cand.score,
             content |-> cand.content,
             metadata |-> cand.metadata ]
  IN IF at = 0 THEN Append(entries, e) ELSE [entries EXCEPT ![at] = e]

\* one loop iteration: scores[key] = scores.get(key, 0) + rrf_score,
\* content_map[key] = content, metadata_map[key] = metadata.  The three
\* dicts share their keys and insertion order and are kept as one sequence.
Accumulate(entries, cand, rank, weight) ==
  LET content_key == hash(cand.content)
      at == KeyIndex(entries, content_key)
      rrf == rrf_score(weight, rank)
  IN IF at = 0
     THEN Append(entries, [ key |-> content_key,
                            score |-> rrf,
                            content |-> cand.content,
                            metadata |-> cand.metadata ])
     ELSE [entries EXCEPT ![at] = [ key |-> content_key,
                                    score |-> @.score + rrf,
                                    content |-> cand.content,
                                    metadata |-> cand.metadata ]]

\* for rank, (content, score, metadata) in enumerate(results)
RECURSIVE ScoreList(_, _, _, _)
ScoreList(entries, results, rank, weight) ==
  IF rank >= Len(results) THEN entries
  ELSE ScoreList(Accumulate(entries, results[rank + 1], rank, weight),
                 results, rank + 1, weight)

\* an unstable sort: e goes ahead of the entries that tie with it
InsertDesc_TiesAhead(sorted, e) ==
  LET n == Len(sorted)
      ahead == Cardinality({ i \in 1..n : sorted[i].score > e.score })
  IN SubSeq(sorted, 1, ahead) \o <<e>> \o SubSeq(sorted, ahead + 1, n)

\* insert e behind every entry whose score is at least e.score
InsertDesc(sorted, e) ==
  LET n == Len(sorted)
      ahead == Cardinality({ i \in 1..n : sorted[i].score >= e.score })
  IN SubSeq(sorted, 1, ahead) \o <<e>> \o SubSeq(sorted, ahead + 1, n)

\* sorted(scores.keys(), key = lambda x: scores[x], reverse = True):
\* descending and stable over the dict's insertion order
RECURSIVE SortedDesc(_, _)
SortedDesc(entries, i) ==
  IF i = 0 THEN <<>>
  ELSE InsertDesc(SortedDesc(entries, i - 1), entries[i])

\* the SearchResult built for one key
SearchResult(e) ==
  [ content |-> e.content,
    metadata |-> e.metadata,
    score |-> e.score,
    source |-> "hybrid" ]

\* the slice forgotten: every key is returned
FirstK_NoCut(a, top_k) == a

\* sorted_keys[:top_k] for top_k >= 0
FirstK(a, top_k) == SubSeq(a, 1, Min(top_k, Len(a)))

\* _reciprocal_rank_fusion
_reciprocal_rank_fusion(vector_results, bm25_results, top_k, vw, bw) ==
  LET scored == ScoreList(ScoreList(<<>>, vector_results, 0, vw),
                          bm25_results, 0, bw)
      sorted_keys == FirstK(SortedDesc(scored, Len(scored)), top_k)
  IN [i \in 1..Len(sorted_keys) |-> SearchResult(sorted_keys[i])]

\* ------------------------------------------------------------------- state
\* One search() call is followed at a time.  Its two tasks hold no await that
\* suspends, so each runs to its end in one step of the event loop, and the
\* fusion reads only the call's own locals.
VARIABLES
  collection,     \* the Chroma collection: sequence of stored documents
  bm25_index,     \* self.bm25_index: <<>> for None, <<index>> once built
  documents,      \* self.documents
  vector_weight,  \* self.vector_weight, in tenths
  bm25_weight,    \* self.bm25_weight, in tenths
  argsort_kind,   \* how this process's argsort orders equal scores
  call,           \* the search() call: its position and its locals
  tasks,          \* the event loop's lexical tasks and direct builds
  running,        \* the task that holds the event loop's thread, or 0
  lazy_builds,    \* number of builds completed by lexical tasks
  memory,         \* query_rewriter.memory, the ConversationMemory
  request,        \* the /query request in flight: its position and locals
  voice,          \* the ZeroLatencyVoiceChat flags and its two threads
  chunker,        \* a VoiceOptimizedChunker and its chunk_document call
  reranker        \* a CrossEncoderReranker and its rerank call

vars ==
  << collection, bm25_index, documents, vector_weight, bm25_weight,
     argsort_kind, call, tasks, running, lazy_builds,
     memory, request, voice, chunker, reranker >>

\* the part of the state that only the interleaved tasks change
loop_vars == << tasks, running, lazy_builds >>

\* the state of the components around the search engine
side_vars == << memory, request, voice, chunker, reranker >>

\* the state of the search engine
search_vars ==
  << collection, bm25_index, documents, vector_weight, bm25_weight,
     argsort_kind, call, tasks, running, lazy_builds >>

\* no call made yet.  prev is <<>> or holds the outcome of the call made just
\* before with the same arguments; dirty: the store changed since the start
IdleCall ==
  [ pc |-> "idle", query |-> <<>>, top_k |-> 0,
    vector_results |-> <<>>, vector_error |-> "none",
    bm25_results |-> <<>>, bm25_error |-> "none",
    built |-> FALSE, result |-> <<>>, dirty |-> FALSE, prev |-> <<>> ]

\* the slots for tasks that are alive at the same time
TaskIds == 1..NumTasks

\* an unused slot.  kind: "search" for the lexical task of a search() call,
\* "build" for a direct call of _build_bm25_index; all_docs and index_read
\* are the task's locals; from_unbuilt: the lexical task was made while no
\* index was built; grown: the task's build replaced an index of fewer
\* documents
IdleTask ==
  [ kind |-> "none", pc |-> "none", all_docs |-> <<>>, index_read |-> <<>>,
    error |-> "none", from_unbuilt |-> FALSE, grown |-> FALSE ]

\* ===================================================================
\* The components around the search engine
\* ===================================================================
\* Texts of these components are sequences of words.

\* ------------------------------------------------------ ConversationMemory
\* QueryRewriter.__init__: ConversationMemory(max_turns=10)
DefaultMaxTurns == 10

\* the conversation ids of the requests
ConvIds == { "c1", "c2" }

\* the part numbers that occur in the texts
Entities == { "XR-500" }

\* ConversationMemory._extract_entities: the part numbers of the text in
\* order; no text of the model holds a capitalised multi-word term
_extract_entities(text) == SelectSeq(text, LAMBDA w : w \in Entities)

\* ConversationMemory.__init__.  The defaultdicts are total functions with
\* the empty list as default.  added and clock are history variables: every
\* turn ever passed to add_turn per conversation, and the number of them.
ConversationMemory(max_turns) ==
  [ conversations |-> [c \in ConvIds |-> <<>>],
    entity_index |-> [e \in Entities |-> <<>>],
    max_turns |-> max_turns,
    added |-> [c \in ConvIds |-> <<>>],
    clock |-> 0 ]

\* entity_index[entity].append(conversation_id) for each extracted entity
RECURSIVE IndexEntities(_, _, _)
IndexEntities(entity_index, entities, conversation_id) ==
  IF entities = <<>> THEN entity_index
  ELSE IndexEntities(
         [entity_index EXCEPT ![Head(entities)] = Append(@, conversation_id)],
         Tail(entities), conversation_id)

\* add_turn that trims to the oldest max_turns turns
add_turn_KeepsOldest(mem, conversation_id, user, assistant) ==
  LET entities == _extract_entities(user \o assistant)
      turn == [ user |-> user, assistant |-> assistant,
                timestamp |-> mem.clock + 1, entities |-> entities ]
      appended == Append(mem.conversations[conversation_id], turn)
  IN [mem EXCEPT
        !.conversations[conversation_id] =
           IF Len(appended) > mem.max_turns
           THEN SubSeq(appended, 1, mem.max_turns)
           ELSE appended,
        !.entity_index = IndexEntities(@, entities, conversation_id),
        !.added[conversation_id] = Append(@, turn),
        !.clock = @ + 1]

\* ConversationMemory.add_turn: append, index the entities, then keep
\* conversations[conversation_id][-max_turns:] when the list is too long
add_turn(mem, conversation_id, user, assistant) ==
  LET entities == _extract_entities(user \o assistant)
      turn == [ user |-> user, assistant |-> assistant,
                timestamp |-> mem.clock + 1, entities |-> entities ]
      appended == Append(mem.conversations[conversation_id], turn)
  IN [mem EXCEPT
        !.conversations[conversation_id] =
           IF Len(appended) > mem.max_turns
           THEN LastK(appended, mem.max_turns)
           ELSE appended,
        !.entity_index = IndexEntities(@, entities, conversation_id),
        !.added[conversation_id] = Append(@, turn),
        !.clock = @ + 1]

\* ConversationMemory.get_history: the turns as {"user", "assistant"} dicts
get_history(mem, conversation_id) ==
  [i \in 1..Len(mem.conversations[conversation_id]) |->
     [ user |-> mem.conversations[conversation_id][i].user,
       assistant |-> mem.conversations[conversation_id][i].assistant ]]

\* QueryRewriter.update_history
update_history(mem, conversation_id, user, assistant) ==
  add_turn(mem, conversation_id, user, assistant)

\* ---------------------------------------------------- CrossEncoderReranker
\* the contents of the results handed to the reranker
RerankContents == { <<"a">>, <<"b">> }

\* the logits the cross-encoder can give a (query, content) pair
LogitValues == { -1, 0, 1 }

\* the score a result carries before reranking: its fused score, which
\* falls with the position and is no logit
FusedScore(i) == 10 - i

\* the lists of at most n results over the contents; page is the position
ResultLists(n) ==
  UNION { [1..len -> RerankContents] : len \in 0..n }

InputResults(contents) ==
  [i \in 1..Len(contents) |->
     [ content |-> contents[i],
       metadata |-> [page |-> i],
       score |-> FusedScore(i),
       source |-> "hybrid" ]]

\* self.model(**features).logits.squeeze(-1): one score per pair, a
\* function of the pair's content for the query of the call
CrossEncoderScores(results, logits) ==
  [i \in 1..Len(results) |-> logits[results[i].content]]

\* an ascending sort in place of the descending one
AscendingOrders(scores) ==
  LET n == Len(scores)
  IN { p \in [1..n -> 1..n] :
         /\ \A i, j \in 1..n : i # j => p[i] # p[j]
         /\ \A i, j \in 1..n : i < j => scores[p[i]] <= scores[p[j]] }

\* the index orders torch.argsort(scores, descending=True) can return: the
\* sort is not stable, so equal scores may come in either order
DescendingOrders(scores) ==
  LET n == Len(scores)
  IN { p \in [1..n -> 1..n] :
         /\ \A i, j \in 1..n : i # j => p[i] # p[j]
         /\ \A i, j \in 1..n : i < j => scores[p[i]] >= scores[p[j]] }

\* the loop of _rerank_sync: results[idx] with its score overwritten
Reranked(results, scores, sorted_indices) ==
  [i \in 1..Len(sorted_indices) |->
     [results[sorted_indices[i]] EXCEPT !.score = scores[sorted_indices[i]]]]

\* the results list after the call: the chosen results are the caller's
\* objects, so the caller's list sees their new scores
Rescored(results, scores, sorted_indices) ==
  [i \in 1..Len(results) |->
     IF i \in Range(sorted_indices)
     THEN [results[i] EXCEPT !.score = scores[i]]
     ELSE results[i]]

\* CrossEncoderReranker._rerank_sync: the sets of (sorted_indices, list)
\* outcomes; sorted_indices is empty when the early return is taken
_rerank_sync(results, top_k, logits) ==
  IF results = <<>> THEN { <<>> }
  ELSE LET scores == CrossEncoderScores(results, logits)
       IN { FirstK(order, top_k) : order \in DescendingOrders(scores) }

\* no rerank call made
IdleReranker ==
  [ pc |-> "idle", results |-> <<>>, top_k |-> 0,
    logits |-> [c \in RerankContents |-> 0],
    input |-> <<>>, sorted_indices |-> <<>>, reranked |-> <<>> ]

\* --------------------------------------------------- VoiceOptimizedChunker
\* VoiceOptimizedChunker.__init__: the default settings
DefaultMaxChunkWords == 50
DefaultOverlapWords == 10
WordsPerMinute == 150

\* the words of the texts: a plain word, a word before a comma, a word that
\* ends a sentence, a conjunction and a term with a pronunciation guide
ChunkWords == { "w", "w,", "w.", "and", "GPU" }

EndsSentence(word) == word = "w."

EndsClause(word) == word = "w,"

Conjunctions == { "and", "or" }

\* ' '.join(sentences) followed by split(): the words of all the pieces
RECURSIVE JoinWords(_)
JoinWords(pieces) ==
  IF pieces = <<>> THEN <<>> ELSE Head(pieces) \o JoinWords(Tail(pieces))

\* _add_pronunciation_guides: 'GPU' becomes the three words 'G P U'
RECURSIVE _add_pronunciation_guides(_)
_add_pronunciation_guides(text) ==
  IF text = <<>> THEN <<>>
  ELSE (IF Head(text) = "GPU" THEN << "G", "P", "U" >> ELSE << Head(text) >>)
       \o _add_pronunciation_guides(Tail(text))

\* _split_into_sentences: a split at the white space after '.', '!' or '?'
RECURSIVE SentencesFrom(_, _)
SentencesFrom(text, cur) ==
  IF text = <<>> THEN (IF cur = <<>> THEN <<>> ELSE << cur >>)
  ELSE IF EndsSentence(Head(text))
       THEN << Append(cur, Head(text)) >> \o SentencesFrom(Tail(text), <<>>)
       ELSE SentencesFrom(Tail(text), Append(cur, Head(text)))

_split_into_sentences(text) == SentencesFrom(text, <<>>)

\* re.split(r'(?<=[,;:])\s+|(?:\s+(?:and|or)\s+)', sentence): a split at the
\* white space after a comma, else at a conjunction that stands between two
\* words, which is dropped
RECURSIVE PartsFrom(_, _, _)
PartsFrom(sentence, i, cur) ==
  IF i > Len(sentence) THEN (IF cur = <<>> THEN <<>> ELSE << cur >>)
  ELSE LET part == Append(cur, sentence[i])
       IN IF i = Len(sentence) THEN << part >>
          ELSE IF EndsClause(sentence[i])
               THEN << part >> \o PartsFrom(sentence, i + 1, <<>>)
          ELSE IF sentence[i + 1] \in Conjunctions /\ i + 1 < Len(sentence)
               THEN << part >> \o PartsFrom(sentence, i + 2, <<>>)
          ELSE PartsFrom(sentence, i + 1, part)

\* the loop of _split_long_sentence over the parts
RECURSIVE GroupParts(_, _, _, _)
GroupParts(parts, current, current_words, max_chunk_words) ==
  IF parts = <<>>
  THEN (IF current # <<>> THEN << JoinWords(current) >> ELSE <<>>)
  ELSE LET part == Head(parts)
           part_words == Len(part)
       IN IF current_words + part_words <= max_chunk_words
          THEN GroupParts(Tail(parts), Append(current, part),
                          current_words + part_words, max_chunk_words)
          ELSE (IF current # <<>> THEN << JoinWords(current) >> ELSE <<>>)
               \o GroupParts(Tail(parts), << part >>, part_words,
                             max_chunk_words)

\* _split_long_sentence
_split_long_sentence(sentence, max_chunk_words) ==
  GroupParts(PartsFrom(sentence, 1, <<>>), <<>>, 0, max_chunk_words)

\* the loop of _get_overlap over reversed(sentences): i is the position of
\* the sentence looked at
RECURSIVE OverlapFrom(_, _, _, _, _)
OverlapFrom(sentences, i, overlap, word_count, overlap_words) ==
  IF i = 0 THEN overlap
  ELSE IF word_count + Len(sentences[i]) <= overlap_words
       THEN OverlapFrom(sentences, i - 1, << sentences[i] >> \o overlap,
                        word_count + Len(sentences[i]), overlap_words)
       ELSE overlap

\* _get_overlap
_get_overlap(sentences, overlap_words) ==
  OverlapFrom(sentences, Len(sentences), <<>>, 0, overlap_words)

\* _create_chunk; the duration (word_count / wpm) * 60 is kept in
\* milliseconds
_create_chunk(sentences) ==
  LET content == JoinWords(sentences)
  IN [ content |-> content,
       metadata |-> <<>>,
       word_count |-> Len(content),
       estimated_speech_duration_ms |->
         (Len(content) * 60000) \div WordsPerMinute ]

RECURSIVE CreateChunks(_)
CreateChunks(subs) ==
  IF subs = <<>> THEN <<>>
  ELSE << _create_chunk(<< Head(subs) >>) >> \o CreateChunks(Tail(subs))

\* the loop of chunk_document over the sentences, and the last chunk
RECURSIVE ChunkLoop(_, _, _, _, _, _)
ChunkLoop(sentences, chunks, current_chunk, current_word_count, max_chunk_words, overlap_words) ==
  IF sentences = <<>>
  THEN (IF current_chunk # <<>>
        THEN Append(chunks, _create_chunk(current_chunk))
        ELSE chunks)
  ELSE LET sentence == Head(sentences)
           sentence_words == Len(sentence)
       IN IF sentence_words > max_chunk_words
          THEN ChunkLoop(
                 Tail(sentences),
                 (IF current_chunk # <<>>
                  THEN Append(chunks, _create_chunk(current_chunk))
                  ELSE chunks)
                 \o CreateChunks(_split_long_sentence(sentence,
                                                      max_chunk_words)),
                 (IF current_chunk # <<>> THEN <<>> ELSE current_chunk),
                 (IF current_chunk # <<>> THEN 0 ELSE current_word_count),
                 max_chunk_words, overlap_words)
          ELSE IF current_word_count + sentence_words <= max_chunk_words
          THEN ChunkLoop(Tail(sentences), chunks,
                         Append(current_chunk, sentence),
                         current_word_count + sentence_words,
                         max_chunk_words, overlap_words)
          ELSE LET carried == _get_overlap(current_chunk, overlap_words)
                              \o << sentence >>
               IN ChunkLoop(Tail(sentences),
                            Append(chunks, _create_chunk(current_chunk)),
                            carried, Len(JoinWords(carried)),
                            max_chunk_words, overlap_words)

\* VoiceOptimizedChunker.chunk_document
chunk_document(text, max_chunk_words, overlap_words) ==
  ChunkLoop(_split_into_sentences(_add_pronunciation_guides(text)),
            <<>>, <<>>, 0, max_chunk_words, overlap_words)

\* no chunk_document call made, on a chunker with the default settings
IdleChunker ==
  [ pc |-> "idle", text |-> <<>>,
    max_chunk_words |-> DefaultMaxChunkWords,
    overlap_words |-> DefaultOverlapWords,
    chunks |-> <<>> ]

\* ---------------------------------------------------- ZeroLatencyVoiceChat
\* ZeroLatencyVoiceChat.__init__: the control flags, no thread started.
\* main and speech are the positions of the thread in run() and of the
\* thread made by speak_non_blocking; sentences is the number of non-empty
\* sentences of the answer and next the one the loop of speak looks at;
\* saying names the thread whose tts.say is running.  stop_called and
\* started_after_stop are history variables: stop_speaking was called while
\* the speaking thread had sentences left, and that thread has started a
\* sentence since.
IdleVoice ==
  [ is_speaking |-> FALSE, should_stop |-> FALSE,
    interrupt_requested |-> FALSE,
    main |-> "idle", speech |-> "none", sentences |-> 0, next |-> 0,
    text |-> "none", stop_called |-> FALSE, started_after_stop |-> FALSE ]

\* ------------------------------------------------------------- text_query
\* the queries sent to /query
EndpointQueries ==
  { << "XR-500", "specs" >>, << "what", "about", "it" >> }

\* the one-word patterns of _needs_context_resolution that the queries use
AmbiguousWords == { "it", "them", "those", "these", "previous", "earlier" }

\* QueryRewriter._needs_context_resolution
_needs_context_resolution(query) ==
  \E i \in DOMAIN query : query[i] \in AmbiguousWords

\* what the rewriting model answers: the query with its reference resolved
RewrittenByModel == << "XR-500", "specs" >>

\* the sentences the answering model gives, and the sentence generate_stream
\* yields when its completion call fails
ModelSentences == << << "Check" >>, << "XR-500" >> >>

ErrorSentence == << "sorry" >>

\* the fused results search() hands to the endpoint when it finds any
EndpointResults == InputResults(<< <<"a">>, <<"b">> >>)

\* the logits of the endpoint's reranker for them
EndpointLogits == [c \in RerankContents |-> IF c = <<"b">> THEN 1 ELSE 0]

\* text_query: reranker.rerank(rewritten_query, search_results, top_k=5)
RerankTopK == 5

\* no request received.  failed and before are history variables: the step
\* whose call failed ("none" when none did) and the conversations as they
\* were when the request came in; served counts the requests received
IdleRequest ==
  [ pc |-> "idle", query |-> <<>>, conversation_id |-> "none",
    rewritten_query |-> <<>>, search_results |-> <<>>, reranked |-> <<>>,
    response |-> <<>>, status |-> 0, error |-> "none",
    failed |-> "none", before |-> <<>>, served |-> 0 ]

\* HybridSearch.__init__ over an empty collection
Init ==
  /\ collection = <<>>
  /\ bm25_index = <<>>
  /\ documents = <<>>
  /\ \E w \in WeightPairs : vector_weight = w[1] /\ bm25_weight = w[2]
  /\ argsort_kind \in ArgsortKinds
  /\ call = IdleCall
  /\ tasks = [t \in TaskIds |-> IdleTask]
  /\ running = 0
  /\ lazy_builds = 0
  /\ memory = ConversationMemory(DefaultMaxTurns)
  /\ request = IdleRequest
  /\ voice = IdleVoice
  /\ chunker = IdleChunker
  /\ reranker = IdleReranker

\* collection.add of one chunk with id chunk_<position> and its page metadata
AddDocument(content) ==
  /\ Len(collection) < MaxDocs
  /\ collection' = Append(collection,
                          [ id |-> Len(collection) + 1,
                            content |-> content,
                            metadata |-> [page |-> Len(collection) + 1] ])
  /\ call' = IF call.pc = "idle" THEN call
             ELSE [call EXCEPT !.dirty = TRUE, !.prev = <<>>]
  /\ UNCHANGED << bm25_index, documents, vector_weight, bm25_weight,
                  argsort_kind >>
  /\ UNCHANGED loop_vars
  /\ UNCHANGED side_vars

\* search(): both tasks are created, then the call waits in gather
StartSearch(query, top_k) ==
  /\ call.pc \in { "idle", "returned", "raised" }
  /\ call' = [IdleCall EXCEPT
       !.pc = "vector", !.query = query, !.top_k = top_k,
       !.prev = IF /\ call.pc = "returned"
                   /\ ~call.dirty
                   /\ call.query = query
                   /\ call.top_k = top_k
                THEN << [result |-> call.result, built |-> call.built] >>
                ELSE <<>>]
  /\ UNCHANGED << collection, bm25_index, documents, vector_weight,
                  bm25_weight, argsort_kind >>
  /\ UNCHANGED loop_vars
  /\ UNCHANGED side_vars

\* the vector task (_vector_search) runs: the embedding call or the store
\* query raises, or the hits come back, or one of the two blocking calls
\* never returns.  The task has no await, so it holds the event loop's
\* thread while it runs: a call that never returns leaves the lexical task
\* unstarted and gather waiting, with no timeout to end the wait
VectorTask ==
  /\ call.pc = "vector"
  /\ \/ call' = [call EXCEPT !.pc = "bm25", !.vector_error = "unavailable"]
     \/ call' = [call EXCEPT !.pc = "hung"]
     \/ call' = [call EXCEPT !.pc = "bm25",
                             !.vector_results =
                               VectorResults(collection, call.query,
                                             call.top_k)]
  /\ UNCHANGED << collection, bm25_index, documents, vector_weight,
                  bm25_weight, argsort_kind >>
  /\ UNCHANGED loop_vars
  /\ UNCHANGED side_vars

\* the index rebuilt from the store on every query, built or not
EnsureIndex_AlwaysBuild(index, docs, all_docs) ==
  [ documents |-> BuildDocuments(all_docs),
    bm25_index |-> <<BuildIndex(BuildDocuments(all_docs))>> ]

\* the None check left out: nothing is built
EnsureIndex_NoBuild(index, docs, all_docs) ==
  [ documents |-> docs, bm25_index |-> index ]

\* if self.bm25_index is None: await self._build_bm25_index()
EnsureIndex(index, docs, all_docs) ==
  IF index = <<>>
  THEN [ documents |-> BuildDocuments(all_docs),
         bm25_index |-> <<BuildIndex(BuildDocuments(all_docs))>> ]
  ELSE [ documents |-> docs, bm25_index |-> index ]

\* the build started but not awaited: the call that finds the index unbuilt
\* gets no lexical candidates
Bm25Task_BuildNotAwaited ==
  /\ call.pc = "bm25"
  /\ LET st == EnsureIndex(bm25_index, documents, collection)
     IN /\ bm25_index' = st.bm25_index
        /\ documents' = st.documents
        /\ call' = [call EXCEPT
              !.pc = "join",
              !.built = (bm25_index = <<>>),
              !.bm25_results =
                IF bm25_index = <<>> THEN <<>>
                ELSE Bm25Results(Head(st.bm25_index), st.documents,
                                 call.query, call.top_k, argsort_kind)]
  /\ UNCHANGED << collection, vector_weight, bm25_weight, argsort_kind >>
  /\ UNCHANGED loop_vars
  /\ UNCHANGED side_vars

\* the lexical task (_bm25_search) runs to its end: collection.get of a
\* needed build raises, or the index is ensured and the query scored on it
Bm25Task ==
  /\ call.pc = "bm25"
  /\ \/ /\ bm25_index = <<>>
        /\ call' = [call EXCEPT !.pc = "join", !.bm25_error = "unavailable"]
        /\ UNCHANGED << bm25_index, documents >>
     \/ LET st == EnsureIndex(bm25_index, documents, collection)
        IN /\ bm25_index' = st.bm25_index
           /\ documents' = st.documents
           /\ IF st.bm25_index = <<>>
              THEN call' = [call EXCEPT !.pc = "join",
                                        !.bm25_error = "no_index"]
              ELSE call' = [call EXCEPT
                     !.pc = "join",
                     !.built = (bm25_index = <<>>),
                     !.bm25_results =
                       Bm25Results(Head(st.bm25_index), st.documents,
                                   call.query, call.top_k, argsort_kind)]
  /\ UNCHANGED << collection, vector_weight, bm25_weight, argsort_kind >>
  /\ UNCHANGED loop_vars
  /\ UNCHANGED side_vars

\* the tasks' exceptions swallowed: a failed path counts as an empty list
Join_ErrorsSwallowed ==
  /\ call.pc = "join"
  /\ call' = [call EXCEPT
       !.pc = "returned",
       !.result =
         _reciprocal_rank_fusion(call.vector_results, call.bm25_results,
                                 call.top_k, vector_weight, bm25_weight)]
  /\ UNCHANGED << collection, bm25_index, documents, vector_weight,
                  bm25_weight, argsort_kind >>
  /\ UNCHANGED loop_vars
  /\ UNCHANGED side_vars

\* gather left out: the fusion runs once the vector task is through, on the
\* still empty list of a lexical task that has not run
Join_NotAwaited ==
  /\ call.pc \in { "bm25", "join" }
  /\ IF call.vector_error # "none" \/ call.bm25_error # "none"
     THEN call' = [call EXCEPT !.pc = "raised"]
     ELSE call' = [call EXCEPT
            !.pc = "returned",
            !.result =
              _reciprocal_rank_fusion(call.vector_results, call.bm25_results,
                                      call.top_k, vector_weight, bm25_weight)]
  /\ UNCHANGED << collection, bm25_index, documents, vector_weight,
                  bm25_weight, argsort_kind >>
  /\ UNCHANGED loop_vars
  /\ UNCHANGED side_vars

\* await asyncio.gather(vector_task, bm25_task), then the fusion: an
\* exception of either task is raised out of search()
Join ==
  /\ call.pc = "join"
  /\ IF call.vector_error # "none" \/ call.bm25_error # "none"
     THEN call' = [call EXCEPT !.pc = "raised"]
     ELSE call' = [call EXCEPT
            !.pc = "returned",
            !.result =
              _reciprocal_rank_fusion(call.vector_results, call.bm25_results,
                                      call.top_k, vector_weight, bm25_weight)]
  /\ UNCHANGED << collection, bm25_index, documents, vector_weight,
                  bm25_weight, argsort_kind >>
  /\ UNCHANGED loop_vars
  /\ UNCHANGED side_vars

Next ==
  \/ \E content \in Contents : AddDocument(content)
  \/ \E query \in Queries, top_k \in TopKs : StartSearch(query, top_k)
  \/ VectorTask
  \/ Bm25Task
  \/ Join

Spec == Init /\ [][Next]_vars

\* -------------------------------------------------------- interleaved tasks
\* Several lexical tasks and direct builds on one event loop, one source
\* statement per step.  asyncio runs one task at a time and changes task
\* only where the running one awaits something unfinished; the store is
\* written by another process and changes at any moment.

\* collection.get awaited off the loop's thread: the task gives up the
\* thread until the result is there, before it assigns anything
Suspends_AfterGet(pc) == pc = "set_docs"

\* an await on something unfinished between the two assignments of the build
Suspends_BetweenAssignments(pc) == pc = "set_index"

\* does a task that reaches pc give up the thread there?  _bm25_search and
\* _build_bm25_index await nothing but the build coroutine itself, which
\* awaits nothing: a started task keeps the thread until it ends
Suspends(pc) == FALSE

\* who holds the thread after task t has stepped to pc
NextRunning(t, pc) ==
  IF pc \in { "done", "failed" } \/ Suspends(pc) THEN 0 ELSE t

\* the loop can run a step of task t
CanRun(t) == running \in { 0, t }

\* every query builds, whether an index exists or not
NeedsBuild_Always(index) == TRUE

\* if self.bm25_index is None
NeedsBuild(index) == index = <<>>

\* asyncio.create_task(self._bm25_search(query, top_k)) in a search() call
CreateTask(t) ==
  /\ running = 0
  /\ tasks[t].kind = "none"
  /\ tasks' = [tasks EXCEPT ![t] =
       [IdleTask EXCEPT !.kind = "search", !.pc = "ready",
                        !.from_unbuilt = (bm25_index = <<>>)]]
  /\ UNCHANGED << collection, bm25_index, documents, vector_weight,
                  bm25_weight, argsort_kind, call, running, lazy_builds >>
  /\ UNCHANGED side_vars

\* a direct call of _build_bm25_index(), the only way to build again
CallBuild(t) ==
  /\ running = 0
  /\ tasks[t].kind = "none"
  /\ tasks' = [tasks EXCEPT ![t] =
       [IdleTask EXCEPT !.kind = "build", !.pc = "ready"]]
  /\ UNCHANGED << collection, bm25_index, documents, vector_weight,
                  bm25_weight, argsort_kind, call, running, lazy_builds >>
  /\ UNCHANGED side_vars

\* _bm25_search starts: the None check decides between build and scoring
CheckIndex(t) ==
  /\ CanRun(t)
  /\ tasks[t].kind = "search"
  /\ tasks[t].pc = "ready"
  /\ LET pc == IF NeedsBuild(bm25_index) THEN "get" ELSE "score"
     IN /\ tasks' = [tasks EXCEPT ![t].pc = pc]
        /\ running' = NextRunning(t, pc)
  /\ UNCHANGED << collection, bm25_index, documents, vector_weight,
                  bm25_weight, argsort_kind, call, lazy_builds >>
  /\ UNCHANGED side_vars

\* the directly called _build_bm25_index starts
EnterBuild(t) ==
  /\ CanRun(t)
  /\ tasks[t].kind = "build"
  /\ tasks[t].pc = "ready"
  /\ tasks' = [tasks EXCEPT ![t].pc = "get"]
  /\ running' = NextRunning(t, "get")
  /\ UNCHANGED << collection, bm25_index, documents, vector_weight,
                  bm25_weight, argsort_kind, call, lazy_builds >>
  /\ UNCHANGED side_vars

\* all_docs = self.collection.get(...): raises, or reads the store
BuildGet(t) ==
  /\ CanRun(t)
  /\ tasks[t].pc = "get"
  /\ \/ /\ tasks' = [tasks EXCEPT ![t].pc = "failed",
                                  ![t].error = "unavailable"]
        /\ running' = 0
     \/ /\ tasks' = [tasks EXCEPT ![t].pc = "set_docs",
                                  ![t].all_docs = collection]
        /\ running' = NextRunning(t, "set_docs")
  /\ UNCHANGED << collection, bm25_index, documents, vector_weight,
                  bm25_weight, argsort_kind, call, lazy_builds >>
  /\ UNCHANGED side_vars

\* self.documents = [{"content": doc, "metadata": meta} for ...]
BuildDocs(t) ==
  /\ CanRun(t)
  /\ tasks[t].pc = "set_docs"
  /\ documents' = BuildDocuments(tasks[t].all_docs)
  /\ tasks' = [tasks EXCEPT ![t].pc = "set_index", ![t].all_docs = <<>>]
  /\ running' = NextRunning(t, "set_index")
  /\ UNCHANGED << collection, bm25_index, vector_weight, bm25_weight,
                  argsort_kind, call, lazy_builds >>
  /\ UNCHANGED side_vars

\* the index kept when there is one: only the first build assigns it
BuildAssign_KeepsIndex(t) ==
  /\ CanRun(t)
  /\ tasks[t].pc = "set_index"
  /\ bm25_index' = IF bm25_index = <<>> THEN <<BuildIndex(documents)>>
                   ELSE bm25_index
  /\ LET pc == IF tasks[t].kind = "search" THEN "score" ELSE "done"
     IN /\ tasks' = [tasks EXCEPT
             ![t].pc = pc,
             ![t].grown = /\ bm25_index # <<>>
                          /\ Head(bm25_index).corpus_size < Len(documents)]
        /\ running' = NextRunning(t, pc)
  /\ lazy_builds' =
       IF tasks[t].kind = "search" THEN lazy_builds + 1 ELSE lazy_builds
  /\ UNCHANGED << collection, documents, vector_weight, bm25_weight,
                  argsort_kind, call >>
  /\ UNCHANGED side_vars

\* tokenized_docs = [... for doc in self.documents];
\* self.bm25_index = BM25Okapi(tokenized_docs); a lexical task goes on to
\* score, a direct build is over
BuildAssign(t) ==
  /\ CanRun(t)
  /\ tasks[t].pc = "set_index"
  /\ bm25_index' = <<BuildIndex(documents)>>
  /\ LET pc == IF tasks[t].kind = "search" THEN "score" ELSE "done"
     IN /\ tasks' = [tasks EXCEPT
             ![t].pc = pc,
             ![t].grown = /\ bm25_index # <<>>
                          /\ Head(bm25_index).corpus_size < Len(documents)]
        /\ running' = NextRunning(t, pc)
  /\ lazy_builds' =
       IF tasks[t].kind = "search" THEN lazy_builds + 1 ELSE lazy_builds
  /\ UNCHANGED << collection, documents, vector_weight, bm25_weight,
                  argsort_kind, call >>
  /\ UNCHANGED side_vars

\* the document-frequency table read as a defaultdict: looking up a query
\* term that no document holds inserts it into the table
ScoreQuery_InsertsTerm(t) ==
  /\ CanRun(t)
  /\ tasks[t].pc = "score"
  /\ bm25_index # <<>>
  /\ bm25_index' =
       << [Head(bm25_index) EXCEPT
             !.term_doc_freq =
               [term \in DOMAIN @ \cup { <<"c">> } |-> Get(@, term)]] >>
  /\ tasks' = [tasks EXCEPT ![t].pc = "collect",
                            ![t].index_read = bm25_index']
  /\ running' = NextRunning(t, "collect")
  /\ UNCHANGED << collection, documents, vector_weight, bm25_weight,
                  argsort_kind, call, lazy_builds >>
  /\ UNCHANGED side_vars

\* scores = self.bm25_index.get_scores(tokenized_query) and the argsort:
\* the index is read (None has no get_scores: AttributeError)
ScoreQuery(t) ==
  /\ CanRun(t)
  /\ tasks[t].pc = "score"
  /\ LET pc == IF bm25_index = <<>> THEN "failed" ELSE "collect"
     IN /\ tasks' = [tasks EXCEPT
             ![t].pc = pc,
             ![t].index_read = bm25_index,
             ![t].error = IF bm25_index = <<>> THEN "no_index" ELSE @]
        /\ running' = NextRunning(t, pc)
  /\ UNCHANGED << collection, bm25_index, documents, vector_weight,
                  bm25_weight, argsort_kind, call, lazy_builds >>
  /\ UNCHANGED side_vars

\* for idx in top_indices: doc = self.documents[idx]: the list is read at
\* positions of the score vector (IndexError past its end)
CollectResults(t) ==
  /\ CanRun(t)
  /\ tasks[t].pc = "collect"
  /\ LET ok == Head(tasks[t].index_read).corpus_size <= Len(documents)
     IN tasks' = [tasks EXCEPT
          ![t].pc = IF ok THEN "done" ELSE "failed",
          ![t].index_read = <<>>,
          ![t].error = IF ok THEN @ ELSE "index_error"]
  /\ running' = 0
  /\ UNCHANGED << collection, bm25_index, documents, vector_weight,
                  bm25_weight, argsort_kind, call, lazy_builds >>
  /\ UNCHANGED side_vars

\* the finished task's result is taken and the task dropped
ForgetTask(t) ==
  /\ running = 0
  /\ tasks[t].pc \in { "done", "failed" }
  /\ tasks' = [tasks EXCEPT ![t] = IdleTask]
  /\ UNCHANGED << collection, bm25_index, documents, vector_weight,
                  bm25_weight, argsort_kind, call, running, lazy_builds >>
  /\ UNCHANGED side_vars

\* the texts stored while tasks interleave: two that share no term
TaskContents == { <<"a">>, <<"b", " ", "b">> }

NextConc ==
  \/ \E content \in TaskContents : AddDocument(content)
  \/ \E t \in TaskIds : CreateTask(t)
  \/ \E t \in TaskIds : CallBuild(t)
  \/ \E t \in TaskIds : CheckIndex(t)
  \/ \E t \in TaskIds : EnterBuild(t)
  \/ \E t \in TaskIds : BuildGet(t)
  \/ \E t \in TaskIds : BuildDocs(t)
  \/ \E t \in TaskIds : BuildAssign(t)
  \/ \E t \in TaskIds : ScoreQuery(t)
  \/ \E t \in TaskIds : CollectResults(t)
  \/ \E t \in TaskIds : ForgetTask(t)

\* no step of the tasks reads the fusion weights or the argsort kind: the
\* instance is taken with its default weights
InitConc ==
  /\ Init
  /\ vector_weight = 7
  /\ argsort_kind = "low"

SpecConc == InitConc /\ [][NextConc]_vars

\* ===================================================================
\* The /query endpoint and the conversation memory
\* ===================================================================
\* One request is followed at a time, one awaited call per step.

\* the search engine at rest with its default weights
SearchIdle ==
  /\ collection = <<>>
  /\ bm25_index = <<>>
  /\ documents = <<>>
  /\ vector_weight = 7
  /\ bm25_weight = 3
  /\ argsort_kind = "low"
  /\ call = IdleCall
  /\ tasks = [t \in TaskIds |-> IdleTask]
  /\ running = 0
  /\ lazy_builds = 0

\* the except branch of text_query: JSONResponse(status_code=500,
\* content={"error": str(e)}) for the exception of the named step
ErrorResponse(req, step) ==
  [req EXCEPT !.pc = "done", !.status = 500, !.error = step,
              !.failed = step]

\* a request comes in
QueryStart(query, conversation_id) ==
  /\ request.pc \in { "idle", "done" }
  /\ request.served < MaxRequests
  /\ request' = [IdleRequest EXCEPT
                   !.pc = "rewrite", !.query = query,
                   !.conversation_id = conversation_id,
                   !.before = memory.conversations,
                   !.served = request.served + 1]
  /\ UNCHANGED << search_vars, memory, voice, chunker, reranker >>

\* Step 1: await query_rewriter.rewrite_query.  A query without an ambiguous
\* reference is returned as it is; otherwise the model is called, and the
\* call can raise
QueryRewrite ==
  /\ request.pc = "rewrite"
  /\ IF ~_needs_context_resolution(request.query)
     THEN request' = [request EXCEPT !.pc = "search",
                                     !.rewritten_query = request.query]
     ELSE \/ request' = [request EXCEPT !.pc = "search",
                                        !.rewritten_query = RewrittenByModel]
          \/ request' = ErrorResponse(request, "rewrite")
  /\ UNCHANGED << search_vars, memory, voice, chunker, reranker >>

\* Step 2: await search.search(rewritten_query, top_k=10): results, no
\* result, or the exception of a failed task
QuerySearch ==
  /\ request.pc = "search"
  /\ \/ \E found \in { <<>>, EndpointResults } :
          request' = [request EXCEPT !.pc = "rerank",
                                     !.search_results = found]
     \/ request' = ErrorResponse(request, "search")
  /\ UNCHANGED << search_vars, memory, voice, chunker, reranker >>

\* Step 3: await reranker.rerank(..., top_k=5), skipped without results
QueryRerank ==
  /\ request.pc = "rerank"
  /\ IF request.search_results # <<>>
     THEN \/ \E sorted_indices \in _rerank_sync(request.search_results,
                                                RerankTopK, EndpointLogits) :
               LET scores == CrossEncoderScores(request.search_results,
                                                EndpointLogits)
               IN request' = [request EXCEPT
                    !.pc = "generate",
                    !.reranked = Reranked(request.search_results, scores,
                                          sorted_indices),
                    !.search_results = Rescored(request.search_results,
                                                scores, sorted_indices)]
          \/ request' = ErrorResponse(request, "rerank")
     ELSE request' = [request EXCEPT !.pc = "generate", !.reranked = <<>>]
  /\ UNCHANGED << search_vars, memory, voice, chunker, reranker >>

\* Step 4: the async for over llm_generator.generate_stream and the join of
\* the chunks.  The completion call of generate_stream is inside its try:
\* when it raises, the generator yields its error sentence and ends, so the
\* loop of text_query ends normally.  Only what generate_stream does before
\* its try (_build_context, the messages) raises into text_query.
QueryGenerate ==
  /\ request.pc = "generate"
  /\ \/ request' = [request EXCEPT !.pc = "update",
                                   !.response = JoinWords(ModelSentences)]
     \/ request' = [request EXCEPT !.pc = "update",
                                   !.response = JoinWords(<< ErrorSentence >>),
                                   !.failed = "generation"]
     \/ request' = ErrorResponse(request, "context")
  /\ UNCHANGED << search_vars, memory, voice, chunker, reranker >>

\* query_rewriter.update_history(conversation_id, query, response) and the
\* return of the response dict
QueryRespond ==
  /\ request.pc = "update"
  /\ memory' = update_history(memory, request.conversation_id,
                              request.query, request.response)
  /\ request' = [request EXCEPT !.pc = "done", !.status = 200]
  /\ UNCHANGED << search_vars, voice, chunker, reranker >>

NextQuery ==
  \/ \E query \in EndpointQueries, conversation_id \in ConvIds :
       QueryStart(query, conversation_id)
  \/ QueryRewrite
  \/ QuerySearch
  \/ QueryRerank
  \/ QueryGenerate
  \/ QueryRespond

\* the memory is made with max_turns = 10; the model takes smaller limits so
\* that a conversation outgrows its limit within MaxRequests requests
InitQuery ==
  /\ SearchIdle
  /\ \E max_turns \in 1..MaxTurns : memory = ConversationMemory(max_turns)
  /\ request = IdleRequest
  /\ voice = IdleVoice
  /\ chunker = IdleChunker
  /\ reranker = IdleReranker

SpecQuery == InitQuery /\ [][NextQuery]_vars

\* ===================================================================
\* The voice chat: the speaking thread and the thread of run()
\* ===================================================================
\* The flags are plain attributes read and written by both threads with no
\* lock; every read and every write is a step of its own.

\* the speaking thread is inside runAndWait with sentences of its text left
MidText == voice.speech = "saying" /\ voice.next < voice.sentences

\* run(): speech_thread = self.speak_non_blocking(answer)
SpeakNonBlocking ==
  /\ voice.main = "answer"
  /\ voice' = [voice EXCEPT !.main = "poll", !.speech = "start"]
  /\ UNCHANGED << search_vars, memory, request, chunker, reranker >>

\* speak(): is_speaking = True and the split into sentences
SpeakBegin ==
  /\ voice.speech = "start"
  /\ voice' = [voice EXCEPT !.speech = "check", !.is_speaking = TRUE,
                            !.next = 1]
  /\ UNCHANGED << search_vars, memory, request, chunker, reranker >>

\* speak(): the head of the loop, the flag check and tts.say(sentence)
SpeakCheck ==
  /\ voice.speech = "check"
  /\ voice' =
       IF voice.next > voice.sentences
       THEN [voice EXCEPT !.speech = "end"]
       ELSE IF voice.interrupt_requested \/ voice.should_stop
       THEN [voice EXCEPT !.speech = "end"]
       ELSE [voice EXCEPT !.speech = "saying",
                          !.started_after_stop = @ \/ voice.stop_called]
  /\ UNCHANGED << search_vars, memory, request, chunker, reranker >>

\* speak(): tts.runAndWait() returns, at the end of the sentence or because
\* the engine was stopped
SpeakFinish ==
  /\ voice.speech = "saying"
  /\ voice' = [voice EXCEPT !.speech = "check", !.next = @ + 1]
  /\ UNCHANGED << search_vars, memory, request, chunker, reranker >>

\* speak(): is_speaking = False, and the thread ends
SpeakEnd ==
  /\ voice.speech = "end"
  /\ voice' = [voice EXCEPT !.speech = "done", !.is_speaking = FALSE]
  /\ UNCHANGED << search_vars, memory, request, chunker, reranker >>

\* run(): while speech_thread.is_alive(), listen in the background for half
\* a second and branch on what was heard
Poll ==
  /\ voice.main = "poll"
  /\ IF voice.speech = "done"
     THEN voice' = [voice EXCEPT !.main = "after"]
     ELSE \E heard \in { "none", "quit", "stop" } :
            voice' = [voice EXCEPT
                        !.text = heard,
                        !.main = IF heard = "none" THEN "poll"
                                 ELSE "stop_speaking"]
  /\ UNCHANGED << search_vars, memory, request, chunker, reranker >>

\* stop_speaking(): interrupt_requested = True, tts.stop(), and the sleep
\* of 0.1 s begins
StopSpeakingSet ==
  /\ voice.main = "stop_speaking"
  /\ voice' = [voice EXCEPT !.main = "sleeping",
                            !.interrupt_requested = TRUE,
                            !.stop_called = @ \/ MidText]
  /\ UNCHANGED << search_vars, memory, request, chunker, reranker >>

\* stop_speaking(): the sleep is over, interrupt_requested = False
StopSpeakingReset ==
  /\ voice.main = "sleeping"
  /\ voice' = [voice EXCEPT
                 !.interrupt_requested = FALSE,
                 !.main = IF voice.text = "quit" THEN "set_stop"
                          ELSE "speak_stopped"]
  /\ UNCHANGED << search_vars, memory, request, chunker, reranker >>

\* run(), on a quit word: should_stop = True and break
SetShouldStop ==
  /\ voice.main = "set_stop"
  /\ voice' = [voice EXCEPT !.should_stop = TRUE, !.main = "after"]
  /\ UNCHANGED << search_vars, memory, request, chunker, reranker >>

\* run(), on 'stop': self.speak("Stopped.") on the thread of run() begins
SpeakStopped ==
  /\ voice.main = "speak_stopped"
  /\ voice' = [voice EXCEPT !.is_speaking = TRUE, !.main = "said_stopped"]
  /\ UNCHANGED << search_vars, memory, request, chunker, reranker >>

\* that speak() call ends with is_speaking = False, and the loop breaks
SpokeStopped ==
  /\ voice.main = "said_stopped"
  /\ voice' = [voice EXCEPT !.is_speaking = FALSE, !.main = "after"]
  /\ UNCHANGED << search_vars, memory, request, chunker, reranker >>

NextVoice ==
  \/ SpeakNonBlocking
  \/ SpeakBegin
  \/ SpeakCheck
  \/ SpeakFinish
  \/ SpeakEnd
  \/ Poll
  \/ StopSpeakingSet
  \/ StopSpeakingReset
  \/ SetShouldStop
  \/ SpeakStopped
  \/ SpokeStopped

\* run() has an answer of one or more sentences to speak
InitVoice ==
  /\ SearchIdle
  /\ memory = ConversationMemory(DefaultMaxTurns)
  /\ request = IdleRequest
  /\ chunker = IdleChunker
  /\ reranker = IdleReranker
  /\ \E n \in 1..MaxSentences :
       voice = [IdleVoice EXCEPT !.main = "answer", !.sentences = n]

SpecVoice == InitVoice /\ [][NextVoice]_vars

\* ===================================================================
\* The chunker: one chunk_document call
\* ===================================================================
\* the texts of at most MaxTextWords words
ChunkTexts == UNION { [1..len -> ChunkWords] : len \in 0..MaxTextWords }

\* chunk_document(text) on the chunker
ChunkDocument ==
  /\ chunker.pc = "called"
  /\ chunker' = [chunker EXCEPT
                   !.pc = "done",
                   !.chunks = chunk_document(chunker.text,
                                             chunker.max_chunk_words,
                                             chunker.overlap_words)]
  /\ UNCHANGED << search_vars, memory, request, voice, reranker >>

NextChunk == ChunkDocument

\* a chunker with overlap_words <= max_chunk_words and a text to chunk
InitChunk ==
  /\ SearchIdle
  /\ memory = ConversationMemory(DefaultMaxTurns)
  /\ request = IdleRequest
  /\ voice = IdleVoice
  /\ reranker = IdleReranker
  /\ \E text \in ChunkTexts, max_chunk_words \in 1..MaxChunkWords :
       \E overlap_words \in 0..max_chunk_words :
         chunker = [ pc |-> "called", text |-> text,
                     max_chunk_words |-> max_chunk_words,
                     overlap_words |-> overlap_words,
                     chunks |-> <<>> ]

SpecChunk == InitChunk /\ [][NextChunk]_vars

\* ===================================================================
\* The reranker: one rerank call
\* ===================================================================
\* rerank(): _rerank_sync runs in the executor and its list is returned
Rerank ==
  /\ reranker.pc = "called"
  /\ \E sorted_indices \in _rerank_sync(reranker.results, reranker.top_k,
                                        reranker.logits) :
       LET scores == CrossEncoderScores(reranker.results, reranker.logits)
       IN reranker' = [reranker EXCEPT
            !.pc = "done",
            !.sorted_indices = sorted_indices,
            !.reranked = Reranked(reranker.results, scores, sorted_indices),
            !.results = Rescored(reranker.results, scores, sorted_indices)]
  /\ UNCHANGED << search_vars, memory, request, voice, chunker >>

NextRerank == Rerank

\* a call with any list of at most MaxResults results, any top_k >= 0 and
\* any scores of the cross-encoder; input keeps the list as it was passed
InitRerank ==
  /\ SearchIdle
  /\ memory = ConversationMemory(DefaultMaxTurns)
  /\ request = IdleRequest
  /\ voice = IdleVoice
  /\ chunker = IdleChunker
  /\ \E contents \in ResultLists(MaxResults), top_k \in TopKs,
        logits \in [RerankContents -> LogitValues] :
       reranker = [ pc |-> "called",
                    results |-> InputResults(contents),
                    top_k |-> top_k,
                    logits |-> logits,
                    input |-> InputResults(contents),
                    sorted_indices |-> <<>>,
                    reranked |-> <<>> ]

SpecRerank == InitRerank /\ [][NextRerank]_vars

\* ===================================================================
\* Properties
\* ===================================================================
Finished == call.pc \in { "returned", "raised" }

Returned == call.pc = "returned"

\* the candidates handed to the fusion of the current call
Candidates == Range(call.vector_results) \cup Range(call.bm25_results)

CandidateIds == { cand.id : cand \in Candidates }

\* 0-indexed ranks at which a list holds a candidate of the given key / id
KeyRanks(results, key) ==
  { r \in 0..(Len(results) - 1) : hash(results[r + 1].content) = key }

IdRanks(results, id) ==
  { r \in 0..(Len(results) - 1) : results[r + 1].id = id }

MinOf(S) == CHOOSE x \in S : \A y \in S : x <= y

RECURSIVE SumOver(_, _)
SumOver(S, weight) ==
  IF S = {} THEN 0
  ELSE LET r == MinOf(S)
       IN weight * (RRFScale \div (K_RRF + r + 1)) + SumOver(S \ {r}, weight)

\* the reciprocal-rank sum of one key over both lists
RRFSum(key) ==
  SumOver(KeyRanks(call.vector_results, key), vector_weight)
  + SumOver(KeyRanks(call.bm25_results, key), bm25_weight)

\* the reciprocal-rank sum of one stored document over both lists
DocRRF(id) ==
  SumOver(IdRanks(call.vector_results, id), vector_weight)
  + SumOver(IdRanks(call.bm25_results, id), bm25_weight)

\* number of distinct keys among the candidates
NumKeys == Cardinality({ hash(cand.content) : cand \in Candidates })

\* C1: whenever search returns, the returned list has at most top_k entries
\* (none when top_k = 0), whatever the two candidate lists were.
C1_AtMostTopK == Returned => Len(call.result) <= call.top_k

\* C1 witness: a search returned exactly top_k entries out of more fused keys
C1_Witness ==
  /\ Returned
  /\ call.top_k >= 1
  /\ NumKeys > call.top_k
  /\ Len(call.result) = call.top_k

\* keys of the candidates of the current call
CandidateKeys == { hash(cand.content) : cand \in Candidates }

InVector(key) == KeyRanks(call.vector_results, key) # {}

\* lowest rank of a key in its list of origin: the vector list when it
\* occurs there, the lexical list otherwise
OriginRank(key) ==
  IF InVector(key) THEN MinOf(KeyRanks(call.vector_results, key))
  ELSE MinOf(KeyRanks(call.bm25_results, key))

\* k1 is ranked ahead of k2: higher fused score, or equal score and vector
\* before lexical-only, or same origin and lower rank
Ahead(k1, k2) ==
  \/ RRFSum(k1) > RRFSum(k2)
  \/ /\ RRFSum(k1) = RRFSum(k2)
     /\ \/ InVector(k1) /\ ~InVector(k2)
        \/ /\ InVector(k1) = InVector(k2)
           /\ OriginRank(k1) < OriginRank(k2)

\* C3: the returned list is in non-increasing fused score, and entries of
\* equal score stand vector-listed before lexical-only and then lower
\* original rank first; an entry left out by the cut is ahead of no
\* returned entry.
C3_OrderAndTieBreak ==
  Returned =>
    /\ \A i, j \in 1..Len(call.result) :
         i < j => Ahead(hash(call.result[i].content),
                        hash(call.result[j].content))
    /\ \A i \in 1..Len(call.result) :
         \A key \in CandidateKeys :
           (\A j \in 1..Len(call.result) :
              hash(call.result[j].content) # key)
             => Ahead(hash(call.result[i].content), key)

\* C3 witness: two returned entries have equal fused scores
C3_Witness ==
  /\ Returned
  /\ \E i, j \in 1..Len(call.result) :
       /\ i < j
       /\ call.result[i].score = call.result[j].score

\* C3 second witness: the tie is between a returned and a cut entry
C3_WitnessCut ==
  /\ Returned
  /\ \E i \in 1..Len(call.result) :
       \E key \in CandidateKeys :
         /\ hash(call.result[i].content) # key
         /\ RRFSum(key) = call.result[i].score

\* C2: the fused score of every returned document is the sum, over the
\* lists it appears in, of w_L / (61 + r) for its rank r in list L, also
\* when the same content occurs at more than one rank.
C2_ScoreIsPerDocumentSum ==
  Returned =>
    \A i \in 1..Len(call.result) :
      \A cand \in Candidates :
        cand.content = call.result[i].content
          => call.result[i].score = DocRRF(cand.id)

\* C4: when the vector path fails and the lexical path succeeds, search
\* returns the lexical-only ranking, tagged apart from a full hybrid result.
C4_DegradesToLexical ==
  (Finished /\ call.vector_error # "none" /\ call.bm25_error = "none") =>
    /\ Returned
    /\ Len(call.result) = Min(call.top_k, Len(call.bm25_results))
    /\ \A i \in 1..Len(call.result) :
         /\ call.result[i].content = call.bm25_results[i].content
         /\ call.result[i].source # "hybrid"

\* C5: a search whose query is empty or only whitespace, with both paths
\* available, returns the empty list.
C5_EmptyQueryEmptyResult ==
  (Finished /\ Tokenize(call.query) = <<>>
     /\ call.vector_error = "none" /\ call.bm25_error = "none") =>
    /\ Returned
    /\ call.result = <<>>

\* C6: fusion is keyed by the stable document identifier: the fused entries
\* are one per stored document among the candidates, so the returned list
\* has min(top_k, number of distinct candidate documents) entries.
C6_OneEntryPerDocument ==
  Returned =>
    Len(call.result) = Min(call.top_k, Cardinality(CandidateIds))

\* C7: a search repeated with the same query and top_k, the store unchanged
\* since the first started, returns the same ordered list as the first.
C7_Idempotent ==
  (Returned /\ call.prev # <<>>) => call.result = Head(call.prev).result

\* C7 witness: the first of the two calls built the index, and both
\* returned two entries
C7_Witness ==
  /\ Returned
  /\ call.prev # <<>>
  /\ Head(call.prev).built
  /\ Len(call.result) >= 2
  /\ call.bm25_results # <<>>

\* C8: with vector_weight = 1 and bm25_weight = 0 the returned list is the
\* vector candidate list cut to top_k, document for document.
C8_VectorOnlyOrder ==
  (Returned /\ vector_weight = 10 /\ bm25_weight = 0) =>
    /\ Len(call.result) = Min(call.top_k, Len(call.vector_results))
    /\ \A i \in 1..Len(call.result) :
         /\ call.result[i].content = call.vector_results[i].content
         /\ call.result[i].metadata = call.vector_results[i].metadata

\* C9: every returned entry is tagged "hybrid" and carries the fused
\* reciprocal-rank score of its key, not a candidate's raw score.
C9_HybridFusedScore ==
  Returned =>
    \A i \in 1..Len(call.result) :
      /\ call.result[i].source = "hybrid"
      /\ call.result[i].score = RRFSum(hash(call.result[i].content))

\* C9 witness: a returned entry fused from both lists, whose raw scores are
\* kept by the candidates
C9_Witness ==
  /\ Returned
  /\ \E i \in 1..Len(call.result) :
       LET key == hash(call.result[i].content)
       IN /\ KeyRanks(call.vector_results, key) # {}
          /\ KeyRanks(call.bm25_results, key) # {}

\* C10: a lexical task that finds the index unbuilt and can read the store
\* builds the index from the store's contents of that moment, then scores
\* the query against that index; scoring never meets an unbuilt index.
C10_BuildThenScore ==
  [][ /\ call'.bm25_error # "no_index"
      /\ (/\ call.pc = "bm25"
          /\ call'.pc = "join"
          /\ bm25_index = <<>>
          /\ call'.bm25_error = "none")
         => /\ documents' = BuildDocuments(collection)
            /\ bm25_index' = <<BuildIndex(BuildDocuments(collection))>>
            /\ call'.bm25_results =
                 Bm25Results(BuildIndex(BuildDocuments(collection)),
                             BuildDocuments(collection), call.query,
                             call.top_k, argsort_kind) ]_vars

\* C10 witness: the call built the index and got lexical candidates from it
C10_Witness ==
  /\ call.pc = "join"
  /\ call.built
  /\ call.bm25_results # <<>>

text_query(c) ==
  IF c.pc = "raised" THEN { 500 } ELSE { 200, 500 }

\* C12: a search whose vector path and lexical path both failed returns no
\* list: the failure is raised to the caller, and /query answers with the
\* error response.
C12_BothFailedRaises ==
  (/\ Finished
   /\ call.vector_error # "none"
   /\ call.bm25_error # "none")
    => /\ call.pc = "raised"
       /\ call.result = <<>>
       /\ text_query(call) = { 500 }

\* C12 witness: a finished call whose two paths both failed
C12_Witness ==
  /\ call.pc = "raised"
  /\ call.vector_error = "unavailable"
  /\ call.bm25_error = "unavailable"

\* the call is inside search(): started, neither returned nor raised
InSearch == call.pc \in { "vector", "bm25", "join", "hung" }

\* C13: search bounds its wait: a call whose vector task does not complete
\* is not left waiting for it, it still has a step to take towards its
\* return (the lexical-only fusion after a timeout).
C13_BoundedWait ==
  InSearch => ENABLED (VectorTask \/ Bm25Task \/ Join)

\* the lexical task of the current call has scored its query on the index
Scored ==
  /\ call.pc = "join"
  /\ call.bm25_error = "none"
  /\ bm25_index # <<>>

\* terms a query can hold besides its own; "c" occurs in no document
TermUniverse == { <<"a">>, <<"b">>, <<"c">> }

\* the term put into the sequence after its first p terms
WithTerm(terms, p, term) ==
  SubSeq(terms, 1, p) \o <<term>> \o SubSeq(terms, p + 1, Len(terms))

\* documents of the corpus that hold the term
Holders(index, term) ==
  { idx \in 1..index.corpus_size : term \in Range(index.corpus[idx]) }

\* C14: get_scores gives exactly 0 to every document that holds none of the
\* query terms, and a query term held by no document changes no score,
\* wherever in the query it stands; so no such document is a candidate.
C14_ZeroWithoutQueryTerm ==
  Scored =>
    LET index == Head(bm25_index)
        terms == Tokenize(call.query)
        scores == get_scores(index, terms)
    IN /\ \A idx \in 1..Len(scores) :
            (\A t \in Range(terms) : idx \notin Holders(index, t))
              => scores[idx] = 0
       /\ \A t \in TermUniverse :
            Holders(index, t) = {}
              => \A p \in 0..Len(terms) :
                   get_scores(index, WithTerm(terms, p, t)) = scores
       /\ \A i \in 1..Len(call.bm25_results) :
            Range(Tokenize(call.bm25_results[i].content)) \cap Range(terms)
              # {}

\* C14 witness: a scored corpus with a document that holds a query term, a
\* document that holds none, and a term of the universe held by no document
C14_Witness ==
  /\ Scored
  /\ LET index == Head(bm25_index)
         terms == Tokenize(call.query)
     IN /\ \E idx \in 1..index.corpus_size :
             \A t \in Range(terms) : idx \notin Holders(index, t)
        /\ \E t \in TermUniverse : Holders(index, t) = {}
        /\ call.bm25_results # <<>>

\* the corpus and the query of the worked example
ExampleCorpus ==
  << << "t", "h", "e", " ", "g", "p", "u", " ", "i", "s", " ",
        "f", "a", "s", "t" >>,
     << "t", "h", "e", " ", "c", "p", "u", " ", "i", "s", " ",
        "s", "l", "o", "w" >>,
     << "s", "s", "d", " ", "s", "t", "o", "r", "a", "g", "e", " ",
        "s", "p", "e", "e", "d" >> >>

ExampleQuery == << "f", "a", "s", "t", " ", "g", "p", "u" >>

\* the example's score vector, computed as _build_bm25_index and
\* _bm25_search compute it
ExampleScores ==
  get_scores(BM25Okapi([i \in 1..Len(ExampleCorpus) |->
                          Tokenize(ExampleCorpus[i])]),
             Tokenize(ExampleQuery))

\* documents of the corpus that hold at least one of the terms
Matching(index, terms) == UNION { Holders(index, t) : t \in Range(terms) }

\* C15: in the worked example document 0 scores strictly above documents 1
\* and 2; and on every scored index a document that holds a query term
\* scores strictly above every document that holds none.
C15_MatchScoresAbove ==
  /\ Len(ExampleScores) = 3
  /\ ExampleScores[1] > ExampleScores[2]
  /\ ExampleScores[1] > ExampleScores[3]
  /\ Scored =>
       LET index == Head(bm25_index)
           terms == Tokenize(call.query)
           scores == get_scores(index, terms)
       IN \A i \in Matching(index, terms) :
            \A j \in (1..index.corpus_size) \ Matching(index, terms) :
              scores[i] > scores[j]

\* C15 witness: a scored corpus of two documents of which exactly one holds
\* a query term, and that one is the only lexical candidate
C15_Witness ==
  /\ Scored
  /\ LET index == Head(bm25_index)
         terms == Tokenize(call.query)
     IN /\ index.corpus_size = 2
        /\ Cardinality(Matching(index, terms)) = 1
        /\ Len(call.bm25_results) = 1
        /\ call.bm25_results[1].id \in Matching(index, terms)

\* the index was built over zero documents
EmptyIndex == bm25_index # <<>> /\ Head(bm25_index).corpus_size = 0

\* C16: an index built over an empty corpus is a valid index: its average
\* document length is 0, no query gets a nonzero score from it, and a
\* lexical task that uses it raises nothing and gets no candidate, for
\* every top_k.
C16_EmptyCorpusIsValid ==
  EmptyIndex =>
    LET index == Head(bm25_index)
    IN /\ index.avg_doc_len = <<0, 1>>
       /\ documents = <<>>
       /\ \A query \in Queries :
            /\ \A idx \in DOMAIN get_scores(index, Tokenize(query)) :
                 get_scores(index, Tokenize(query))[idx] = 0
            /\ \A top_k \in TopKs :
                 Bm25Results(index, documents, query, top_k, argsort_kind)
                   = <<>>
       /\ call.pc \in { "join", "returned", "raised" }
            => /\ call.bm25_error = "none"
               /\ call.bm25_results = <<>>

\* C16 witness: a call with a query of one term or more and top_k above 0
\* built the index over the empty store and scored the query on it
C16_Witness ==
  /\ Scored
  /\ EmptyIndex
  /\ call.built
  /\ call.top_k > 0
  /\ Tokenize(call.query) # <<>>

\* the stored text and the query have a term in common
Overlaps(content, query) ==
  Range(Tokenize(content)) \cap Range(Tokenize(query)) # {}

\* this step ends a build by task t
EndsBuild(t) == tasks[t].pc = "set_index" /\ tasks'[t].pc # "set_index"

\* positions of self.documents that the index in place does not cover: the
\* documents added since it was built
Added ==
  IF bm25_index = <<>> THEN {}
  ELSE (Head(bm25_index).corpus_size + 1)..Len(documents)

\* C17 as stated: when a rebuild takes in an added document that shares a
\* term with the query, some document that was already indexed gets a
\* score for that query other than its score before the rebuild; and no
\* step but the end of a build changes the index, hence any score.
C17_RebuildShiftsAScore ==
  [][ /\ \A t \in TaskIds :
           (EndsBuild(t) /\ bm25_index # <<>>
            /\ Head(bm25_index).corpus_size >= 1)
             => \A query \in Queries :
                  (\E d \in Added : Overlaps(documents[d].content, query))
                    => LET before == get_scores(Head(bm25_index),
                                                Tokenize(query))
                           after == get_scores(Head(bm25_index'),
                                               Tokenize(query))
                       IN \E idx \in DOMAIN before :
                            idx \notin DOMAIN after
                              \/ after[idx] # before[idx]
      /\ (\A t \in TaskIds : ~EndsBuild(t)) => bm25_index' = bm25_index
    ]_vars

\* C17 amended: when a rebuild takes in an added document that shares a
\* term with the query, that document, which had no score before, gets a
\* score above 0, so the score vector of the query changes; and no step but
\* the end of a build changes the index, hence any score.
C17_RebuildScoresAddedDocument ==
  [][ /\ \A t \in TaskIds :
           (EndsBuild(t) /\ bm25_index # <<>>)
             => \A query \in Queries :
                  \A d \in Added :
                    Overlaps(documents[d].content, query)
                      => LET before == get_scores(Head(bm25_index),
                                                  Tokenize(query))
                             after == get_scores(Head(bm25_index'),
                                                 Tokenize(query))
                         IN /\ d \notin DOMAIN before
                            /\ d \in DOMAIN after
                            /\ after[d] > 0
      /\ (\A t \in TaskIds : ~EndsBuild(t)) => bm25_index' = bm25_index
    ]_vars

\* C17 witness: a direct build has replaced an index of fewer documents, and
\* the last document it took in shares a term with a query
C17_Witness ==
  /\ \E t \in TaskIds :
       /\ tasks[t].kind = "build"
       /\ tasks[t].pc = "done"
       /\ tasks[t].grown
  /\ bm25_index = <<BuildIndex(documents)>>
  /\ documents # <<>>
  /\ \E query \in Queries :
       Overlaps(documents[Len(documents)].content, query)

\* the tasks that are inside _build_bm25_index
Building ==
  { t \in TaskIds : tasks[t].pc \in { "get", "set_docs", "set_index" } }

\* C18: whatever the order in which the loop runs lexical tasks and direct
\* builds, at most one task is inside the index build at a time, a task
\* that waited for the build of another fails with nothing but an
\* unreadable store, and the lexical tasks complete at most one build
\* between them, however many started while the index was unbuilt.
C18_OneBuildInProgress ==
  /\ Cardinality(Building) <= 1
  /\ lazy_builds <= 1
  /\ \A t \in TaskIds : tasks[t].error \in { "none", "unavailable" }
  /\ \A t \in Building : running = t

\* C18 witness: two lexical tasks were made while the index was unbuilt, both
\* are through, and one build was done
C18_Witness ==
  /\ \E t, u \in TaskIds :
       /\ t # u
       /\ tasks[t].kind = "search" /\ tasks[u].kind = "search"
       /\ tasks[t].from_unbuilt /\ tasks[u].from_unbuilt
       /\ tasks[t].pc = "done" /\ tasks[u].pc = "done"
  /\ lazy_builds = 1

\* C19: a lexical task reads self.bm25_index (to score) and self.documents
\* (to collect) from one completed build: where it is about to score, the
\* index in place is the index of the document list in place; where it is
\* about to collect, the index it scored on still is, so the score vector
\* has one entry per document and every selected position exists; and no
\* task meets a missing index or a position past the list.
C19_ReadsOneCompletedBuild ==
  \A t \in TaskIds :
    /\ tasks[t].pc = "score"
         => bm25_index = <<BuildIndex(documents)>>
    /\ tasks[t].pc = "collect"
         => /\ tasks[t].index_read = <<BuildIndex(documents)>>
            /\ Head(tasks[t].index_read).corpus_size = Len(documents)
    /\ tasks[t].error \notin { "no_index", "index_error" }

\* C19 witness: a lexical task has scored and is about to collect from an
\* index that a direct build put in place of a smaller one
C19_Witness ==
  \E t, u \in TaskIds :
    /\ tasks[t].kind = "search"
    /\ tasks[t].pc = "collect"
    /\ tasks[u].kind = "build"
    /\ tasks[u].pc = "done"
    /\ tasks[u].grown
    /\ Head(tasks[t].index_read).corpus_size = MaxDocs

\* the lifecycle state of the lexical index: Unbuilt while self.bm25_index is
\* None, Rebuilding while a build runs over a built index, Built otherwise
LifeState ==
  IF bm25_index = <<>> THEN "Unbuilt"
  ELSE IF Building # {} THEN "Rebuilding"
  ELSE "Built"

\* the moves of the lifecycle
LifeMoves ==
  { <<"Unbuilt", "Built">>, <<"Built", "Rebuilding">>,
    <<"Rebuilding", "Built">> }

\* C20: the index moves only Unbuilt -> Built, Built -> Rebuilding and
\* Rebuilding -> Built; it enters Rebuilding only through a direct build,
\* and a lexical task enters the build only while the index is unbuilt.
C20_Lifecycle ==
  [][ /\ LifeState' # LifeState => <<LifeState, LifeState'>> \in LifeMoves
      /\ (LifeState = "Built" /\ LifeState' = "Rebuilding")
           => \E t \in TaskIds :
                /\ tasks[t].kind = "build"
                /\ tasks[t].pc = "ready"
                /\ tasks'[t].pc = "get"
      /\ \A t \in TaskIds :
           (tasks'[t].kind = "search" /\ t \in Building')
             => bm25_index' = <<>> ]_vars

\* C20 witness: a direct build runs over a built index while a lexical task
\* made after the first build waits for its turn
C20_Witness ==
  /\ LifeState = "Rebuilding"
  /\ lazy_builds = 1
  /\ \E t \in TaskIds :
       /\ tasks[t].kind = "search"
       /\ tasks[t].pc = "ready"
       /\ ~tasks[t].from_unbuilt

\* the vector task / the lexical task of the call has finished
VectorFinished == call.pc \in { "bm25", "join", "returned", "raised" }

Bm25Finished == call.pc \in { "join", "returned", "raised" }

\* C21: a search call begins with both tasks made and neither run; it
\* leaves the wait only when both tasks have finished; and the list it then
\* returns is the fusion of the two finished tasks' lists.
C21_FusionAfterBothTasks ==
  [][ /\ (~InSearch /\ InSearch')
           => /\ call'.pc = "vector"
              /\ call'.vector_results = <<>>
              /\ call'.bm25_results = <<>>
      /\ (InSearch /\ Finished')
           => /\ VectorFinished
              /\ Bm25Finished
      /\ (InSearch /\ Returned')
           => call'.result =
                _reciprocal_rank_fusion(call.vector_results,
                                        call.bm25_results, call.top_k,
                                        vector_weight, bm25_weight) ]_vars

\* C21 witness: a call returned the fusion of two lists that both tasks
\* filled, the lexical one after building the index
C21_Witness ==
  /\ Returned
  /\ call.built
  /\ call.vector_results # <<>>
  /\ call.bm25_results # <<>>
  /\ call.result # <<>>

\* C22: when one of the two tasks of a call fails, the other still runs to
\* its end, and the call returns the result made from the other task's
\* candidate list.
C22_OtherTaskStillUsed ==
  /\ (Finished /\ call.vector_error # "none" /\ call.bm25_error = "none")
       => /\ Returned
          /\ call.result =
               _reciprocal_rank_fusion(<<>>, call.bm25_results, call.top_k,
                                       vector_weight, bm25_weight)
  /\ (Finished /\ call.vector_error = "none" /\ call.bm25_error # "none")
       => /\ Returned
          /\ call.result =
               _reciprocal_rank_fusion(call.vector_results, <<>>, call.top_k,
                                       vector_weight, bm25_weight)

\* the score vector of the current call's query on the index in place
CallScores == get_scores(Head(bm25_index), Tokenize(call.query))

\* positions of self.documents among the current call's lexical candidates
LexicalIds == { call.bm25_results[i].id : i \in 1..Len(call.bm25_results) }

\* C23: the lexical candidate list holds only documents that score above 0,
\* each with its score, in non-increasing score order, none twice, and a
\* document that scores above 0 is left out only if it scores no higher
\* than every candidate: the list is a prefix of the descending ranking of
\* the documents that score above 0.
C23_LexicalListIsRankingPrefix ==
  Scored =>
    LET results == call.bm25_results
        n == Len(results)
    IN /\ \A i \in 1..n :
            /\ results[i].id \in DOMAIN CallScores
            /\ results[i].score = CallScores[results[i].id]
            /\ results[i].score > 0
            /\ results[i].content = documents[results[i].id].content
       /\ \A i, j \in 1..n : i < j => results[i].score >= results[j].score
       /\ \A i, j \in 1..n : i # j => results[i].id # results[j].id
       /\ \A idx \in DOMAIN CallScores :
            (CallScores[idx] > 0 /\ idx \notin LexicalIds)
              => \A i \in 1..n : results[i].score >= CallScores[idx]
       /\ (\E idx \in DOMAIN CallScores :
             CallScores[idx] > 0 /\ idx \notin LexicalIds)
            => n = call.top_k

\* C23 witness: with top_k = 1 the candidate list holds the better of two
\* documents that score above 0 with different scores
C23_Witness ==
  /\ Scored
  /\ call.top_k = 1
  /\ Len(call.bm25_results) = 1
  /\ \E idx \in DOMAIN CallScores :
       /\ CallScores[idx] > 0
       /\ CallScores[idx] < call.bm25_results[1].score

\* number of documents of the index in place that score above 0
NumScoring == Cardinality({ idx \in DOMAIN CallScores : CallScores[idx] > 0 })

\* C24: each candidate list handed to the fusion holds 2 * top_k entries, or
\* all there are when there are fewer: the vector store is asked for
\* 2 * top_k hits and the lexical ranking is cut at 2 * top_k.
C24_ListsOversampled ==
  (Scored /\ call.vector_error = "none" /\ ~call.dirty)
    => /\ Len(call.vector_results) = Min(2 * call.top_k, Len(collection))
       /\ Len(call.bm25_results) = Min(2 * call.top_k, NumScoring)

\* this step is task t scoring or collecting
Scores(t) ==
  /\ tasks[t].pc \in { "score", "collect" }
  /\ tasks'[t].pc # tasks[t].pc

\* C25: the scoring and ranking steps of a lexical task leave the index
\* (corpus, corpus size, average length, term frequencies, document
\* frequencies) and the document list as they are; the index changes only
\* where a build assigns it, the document list only where a build assigns
\* it.
C25_ScoringWritesNothing ==
  [][ /\ \A t \in TaskIds :
           Scores(t) => /\ bm25_index' = bm25_index
                        /\ documents' = documents
      /\ bm25_index' # bm25_index
           => \E t \in TaskIds : EndsBuild(t)
      /\ documents' # documents
           => \E t \in TaskIds :
                tasks[t].pc = "set_docs" /\ tasks'[t].pc = "set_index"
    ]_vars

\* C25 witness: a lexical task made after the build has scored and collected
\* on an index of MaxDocs documents, which is still the index of the list
C25_Witness ==
  /\ \E t \in TaskIds :
       /\ tasks[t].kind = "search"
       /\ tasks[t].pc = "done"
       /\ ~tasks[t].from_unbuilt
  /\ Len(documents) = MaxDocs
  /\ bm25_index = <<BuildIndex(documents)>>

\* the request is between its arrival and its response
InFlight == request.pc \in { "rewrite", "search", "rerank", "generate", "update" }

\* the conversations of mem equal those of before but for one turn of the
\* given texts appended to conversation_id and the trimming to max_turns
GainedOneTurn(before, mem, conversation_id, user, assistant) ==
  /\ \A c \in ConvIds \ { conversation_id } : mem.conversations[c] = before[c]
  /\ \E turn \in Range(mem.conversations[conversation_id]) :
       /\ turn.user = user
       /\ turn.assistant = assistant
       /\ mem.conversations[conversation_id] =
            LET appended == Append(before[conversation_id], turn)
            IN IF Len(appended) > mem.max_turns
               THEN SubSeq(appended, Len(appended) - mem.max_turns + 1,
                           Len(appended))
               ELSE appended

C27_KeepsMostRecentTurns ==
  [][ memory' # memory =>
        /\ \A c \in ConvIds :
             LET kept == memory'.conversations[c]
                 all == memory'.added[c]
             IN /\ Len(kept) <= memory'.max_turns
                /\ Len(kept) = Min(memory'.max_turns, Len(all))
                /\ \A i \in 1..Len(kept) :
                     kept[i] = all[Len(all) - Len(kept) + i]
        /\ \A c \in ConvIds \ { request.conversation_id } :
             /\ memory'.conversations[c] = memory.conversations[c]
             /\ memory'.added[c] = memory.added[c]
        /\ Len(memory'.added[request.conversation_id]) =
             Len(memory.added[request.conversation_id]) + 1
        /\ memory'.max_turns = memory.max_turns ]_vars

\* a conversation that was trimmed to its last two turns out of three while
\* another conversation holds a turn
C27_Witness ==
  \E c, d \in ConvIds :
    /\ c # d
    /\ memory.max_turns = 2
    /\ Len(memory.added[c]) = 3
    /\ Len(memory.conversations[c]) = 2
    /\ memory.conversations[d] # <<>>

\* C28: speech started with speak_non_blocking is interruptible: once
\* stop_speaking has been called while the speaking thread is in the middle
\* of a text of several sentences, that thread starts no further sentence,
\* however the two threads interleave.
C28_NoSentenceAfterStop == ~voice.started_after_stop

\* C29: every chunk chunk_document returns has at most max_chunk_words
\* words, for every text and every setting with overlap_words <=
\* max_chunk_words, the chunks that start with carried-over sentences and
\* the pieces of a split long sentence included.
C29_ChunksWithinLimit ==
  chunker.pc = "done" =>
    \A i \in 1..Len(chunker.chunks) :
      /\ chunker.chunks[i].word_count = Len(chunker.chunks[i].content)
      /\ chunker.chunks[i].word_count <= chunker.max_chunk_words

\* C30: rerank returns, for any list of results and any top_k >= 0, at most
\* top_k results; each is one of the results passed in (same content,
\* metadata and source) and none comes twice; their scores do not increase
\* along the list; each score is the cross-encoder's score of the result;
\* an empty list gives an empty list.
C30_RerankedTopK ==
  reranker.pc = "done" =>
    LET out == reranker.reranked
        inp == reranker.input
    IN /\ Len(out) <= reranker.top_k
       /\ Len(out) <= Len(inp)
       /\ \A i \in 1..Len(out) :
            /\ \E k \in 1..Len(inp) :
                 /\ out[i].content = inp[k].content
                 /\ out[i].metadata = inp[k].metadata
                 /\ out[i].source = inp[k].source
            /\ out[i].score = reranker.logits[out[i].content]
       /\ \A i, j \in 1..Len(out) :
            /\ i # j => out[i].metadata # out[j].metadata
            /\ i < j => out[i].score >= out[j].score
       /\ inp = <<>> => out = <<>>

\* three results cut to two, the last of the input first
C30_Witness ==
  /\ reranker.pc = "done"
  /\ Len(reranker.input) = 3
  /\ reranker.top_k = 2
  /\ Len(reranker.reranked) = 2
  /\ reranker.reranked[1].metadata = reranker.input[3].metadata
  /\ reranker.reranked[1].score > reranker.reranked[2].score

====
